---- MODULE Spec2Model ----
(***************************************************************************)
(* env-sync: the sync command.  syncEnvFiles fans the remembered .env      *)
(* files out to a pool of worker goroutines; each worker runs              *)
(* syncFileParallel on the files it takes from the jobs channel and sends  *)
(* one syncResult per file to the results channel, which the caller        *)
(* drains before it prints the summary.                                    *)
(***************************************************************************)
EXTENDS Integers, Sequences, FiniteSets, TLC

\* ----------------------------------------------------------------- bounds
MaxClock == 2        \* seconds the database's clock is followed for
MaxFiles == 2        \* most files in the remembered list
MaxWorkers == 2      \* largest --workers value tried
TicksPerSec == 2     \* resolution of the model's clock: ticks in one second
RemoteSec == 2       \* second at which the records of the initial store were pushed

\* ------------------------------------------------------------------- time
\* A time.Time is a number of ticks.  A stored file_modified_at is a string:
\* here its layout and the instant it denotes.
Tolerance == 1 * TicksPerSec

RemoteTick == RemoteSec * TicksPerSec

\* time.Now() during the run: later than every modification time tried
Now == RemoteTick + 3 * TicksPerSec

\* the time of the write formatted in place of the time handed in
FormatNow(t) == [layout |-> "sql", t |-> Now]

\* Time.Format("2006-01-02 15:04:05"): whole seconds, the fraction is dropped
FormatTime(t) == [layout |-> "sql", t |-> (t \div TicksPerSec) * TicksPerSec]

\* time.Parse("2006-01-02 15:04:05", s) alone, without the RFC3339 fallback
ParseSqlOnly(s) ==
    IF s.layout = "sql" THEN [ok |-> TRUE, t |-> s.t]
    ELSE [ok |-> FALSE, t |-> 0]

\* time.Parse("2006-01-02 15:04:05", s), then time.Parse(time.RFC3339, s)
ParseDbTime(s) ==
    IF s.layout = "sql" THEN [ok |-> TRUE, t |-> s.t]
    ELSE IF s.layout = "rfc3339" THEN [ok |-> TRUE, t |-> s.t]
    ELSE [ok |-> FALSE, t |-> 0]

\* ------------------------------------------------------------------ codec
Contents == {"a", "b"}

HashFile(contents) == <<"sha256", contents>>

deriveKey(password, salt) == <<"argon2", password, salt>>

\* cipher.AEAD of AES-GCM.  The ciphertext is the plaintext under the keystream
\* of (key, nonce): it is named by the three.  The tag authenticates the
\* ciphertext under the key and the nonce.  Two ciphertexts, or two tags, are
\* equal only when what they are made of is equal.
Tag(key, nonce, ct) == [key |-> key, nonce |-> nonce, ct |-> ct]

\* gcm.Seal(nonce, nonce, plaintext, nil), without the nonce it is appended to
Seal(key, nonce, plaintext) ==
    LET ct == [key |-> key, nonce |-> nonce, pt |-> plaintext]
    IN  [ct |-> ct, tag |-> Tag(key, nonce, ct)]

\* gcm.Open(nil, nonce, ciphertext, nil): the tag is checked, then the
\* keystream of (key, nonce) is taken off
Open(key, nonce, sealed) ==
    IF sealed.tag # Tag(key, nonce, sealed.ct) THEN [err |-> TRUE, pt |-> ""]
    ELSE [err |-> FALSE,
          pt |-> IF sealed.ct.key = key /\ sealed.ct.nonce = nonce
                 THEN sealed.ct.pt ELSE "garbage"]

\* base64(salt ++ nonce ++ Seal(key, nonce, plaintext))
Encrypt(plaintext, password, salt, nonce) ==
    [b64 |-> TRUE, salt |-> salt, nonce |-> nonce,
     sealed |-> Seal(deriveKey(password, salt), nonce, plaintext)]

\* Decrypt deriving the key from an empty salt instead of the blob's
DecryptWrongSalt(encryptedData, password) ==
    IF ~encryptedData.b64 THEN [err |-> TRUE, text |-> ""]
    ELSE LET plaintext == Open(deriveKey(password, ""), encryptedData.nonce,
                               encryptedData.sealed)
         IN  IF plaintext.err THEN [err |-> TRUE, text |-> ""]
             ELSE [err |-> FALSE, text |-> plaintext.pt]

\* Decrypt taking the keystream off without checking the tag
DecryptUnauthenticated(encryptedData, password) ==
    IF ~encryptedData.b64 THEN [err |-> TRUE, text |-> ""]
    ELSE LET key == deriveKey(password, encryptedData.salt)
             ct == encryptedData.sealed.ct
         IN  [err |-> FALSE,
              text |-> IF ct.key = key /\ ct.nonce = encryptedData.nonce
                       THEN ct.pt ELSE "garbage"]

\* base64 decoding, the salt, the key, the nonce, gcm.Open; every failure
\* returns "" and the error
Decrypt(encryptedData, password) ==
    IF ~encryptedData.b64 THEN [err |-> TRUE, text |-> ""]
    ELSE LET plaintext == Open(deriveKey(password, encryptedData.salt),
                               encryptedData.nonce, encryptedData.sealed)
         IN  IF plaintext.err THEN [err |-> TRUE, text |-> ""]
             ELSE [err |-> FALSE, text |-> plaintext.pt]

Salts == {"s1"}
Nonces == {"n1"}

\* ------------------------------------------------------------------ state
VARIABLES
    files,        \* number of remembered files; file i is files[i] of the list
    ident,        \* file -> the (repo_id, relative_path) key it resolves to
    disk,         \* file -> [content, mtime] of the local file
    store,        \* key -> the env_files row, or Absent
    password,     \* --password of the invocation
    dryRun,       \* --dry-run of the invocation
    todo,         \* --dry-run flags of the invocations that follow this one
    numWorkers,   \* --workers, clamped by syncEnvFiles
    stats,        \* SyncStats
    jobs, jobsClosed,
    results, resultsClosed,
    wg,           \* sync.WaitGroup counter
    pc,           \* where syncEnvFiles is
    sent,         \* number of files sent to jobs so far
    errCount,
    waiter,       \* the goroutine of wg.Wait(); close(results)
    wpc,          \* worker -> where it is
    wloc,         \* worker -> locals of its syncFileParallel call
    printed,      \* file -> the lines written to stdout about it, in order
    report,       \* the figures of the summary
    prevPrinted,  \* stdout of the previous invocation
    codec,        \* a text on its way through Encrypt and Decrypt
    table,        \* the rows of env_files, as the database holds them
    clock,        \* the database's CURRENT_TIMESTAMP
    git,          \* a remote URL or a file path on its way through git.go
    daemon        \* runDaemon: where it is, its signal channel and its ticker

vars == <<files, ident, disk, store, password, dryRun, todo, numWorkers, stats,
          jobs, jobsClosed, results, resultsClosed, wg, pc, sent, errCount,
          waiter, wpc, wloc, printed, report, prevPrinted, codec, table, clock, git, daemon>>

\* a contents column that holds no blob of Encrypt: the text as it is
Plain(text) == [b64 |-> FALSE, salt |-> "", nonce |-> "", sealed |-> Seal(<<>>, "", text)]

NoBlob == Plain("")

\* the result of a query that found no row (sql.ErrNoRows: nil, nil)
Absent == [present |-> FALSE, contents |-> NoBlob, file_hash |-> <<>>,
           file_modified_at |-> [layout |-> "", t |-> 0]]

Row(contents, fileHash, fileModTime) ==
    [present |-> TRUE, contents |-> contents, file_hash |-> fileHash,
     file_modified_at |-> fileModTime]

Workers == 1..MaxWorkers
FileIds == 1..MaxFiles

NoLoc == [file |-> 0, mtime |-> 0, hash |-> <<>>, rec |-> Absent,
          branch |-> "", message |-> "", suffix |-> "", err |-> "nil"]

ZeroStats == [FilesUploaded |-> 0, FilesDownloaded |-> 0,
              FilesSkipped |-> 0, FilesConflict |-> 0]

\* no text is on its way
NoCodec == [op |-> "none", plaintext |-> "", password |-> "", blob |-> NoBlob,
            altered |-> "", opener |-> "", out |-> [err |-> FALSE, text |-> ""]]

\* no URL and no path is on its way
NoGit == [op |-> "none", url |-> <<>>, site |-> <<>>, out |-> <<>>, repos |-> {},
          filePath |-> [abs |-> TRUE, parts |-> <<>>],
          basePath |-> [abs |-> TRUE, parts |-> <<>>],
          id |-> [repoID |-> <<>>, relativePath |-> <<>>, err |-> FALSE]]

\* the sync command was not started by runDaemon
NoDaemon == [at |-> "off", sig |-> "", ticking |-> FALSE, tick |-> FALSE]

NoReport == [uploaded |-> -1, downloaded |-> -1, skipped |-> -1,
             conflicts |-> -1, errors |-> -1, workers |-> -1]

\* ------------------------------------------------------------------- Init
\* A run with one file tries every local state against every kind of stored
\* row; a run with several files tries the profiles that reach each branch.
LocalTimes == { RemoteTick + d : d \in -(TicksPerSec + 1) .. (TicksPerSec + 1) }

\* the local states that reach, against PoolRow, the branches local newer,
\* identical, remote newer and timestamps similar
PoolFiles == << [content |-> "b", mtime |-> RemoteTick + 2 * TicksPerSec],
                [content |-> "a", mtime |-> RemoteTick + 1],
                [content |-> "b", mtime |-> RemoteTick - 2 * TicksPerSec],
                [content |-> "b", mtime |-> RemoteTick + 1] >>

\* the files of a list take consecutive states of PoolFiles, from the first or
\* from the third, so that two files already meet all four
PoolDisks(n) == { [f \in 1..n |-> PoolFiles[((f + r) % 4) + 1]] : r \in {1, 3} }

Passwords == {"pw", "old"}

StoredStamps == { [layout |-> "sql", t |-> RemoteTick],
                  [layout |-> "rfc3339", t |-> RemoteTick],
                  [layout |-> "garbled", t |-> 0] }

\* a blob one byte of whose ciphertext changed in the store
Corrupted(blob) == [blob EXCEPT !.sealed.ct.pt = "flipped"]

\* rows pushed with this password or another, under each kind of timestamp,
\* and a row whose blob was corrupted since
InitRows == { Row(Encrypt("a", w, "s0", "n0"), HashFile("a"), s) :
                 w \in Passwords, s \in StoredStamps }
            \cup { Row(Corrupted(Encrypt("a", "pw", "s0", "n0")), HashFile("a"),
                       [layout |-> "sql", t |-> RemoteTick]) }

PoolRow == Row(Encrypt("a", "pw", "s0", "n0"), HashFile("a"),
               [layout |-> "sql", t |-> RemoteTick])

\* every file resolves to a key of its own, or the second file is the same
\* path in a second working copy of the first file's repository and resolves
\* to the first file's key
Idents(n) == { [f \in 1..n |-> IF f = 2 /\ shared THEN 1 ELSE f] : shared \in BOOLEAN }

\* no row yet, or the rows of the first key, or of every key, already pushed
PoolStores(n) == { [k \in 1..n |-> IF k <= pushed THEN PoolRow ELSE Absent] : pushed \in {0, 1, n} }

RunInit ==
    /\ stats = ZeroStats
    /\ jobs = <<>> /\ jobsClosed = FALSE
    /\ results = <<>> /\ resultsClosed = FALSE
    /\ wg = 0
    /\ pc = "start"
    /\ sent = 0
    /\ errCount = 0
    /\ waiter = "none"
    /\ wpc = [w \in Workers |-> "none"]
    /\ wloc = [w \in Workers |-> NoLoc]
    /\ printed = [f \in FileIds |-> <<>>]
    /\ report = NoReport

InitOne ==
    /\ files = 1
    /\ ident = [f \in 1..1 |-> 1]
    /\ disk \in [1..1 -> [content : Contents, mtime : LocalTimes]]
    /\ store \in [1..1 -> InitRows \cup {Absent}]
    /\ numWorkers \in {-1, 0, 1, MaxWorkers}
    /\ \E flags \in {<<FALSE>>, <<TRUE>>, <<TRUE, FALSE>>, <<FALSE, FALSE>>} :
          /\ dryRun = Head(flags)
          /\ todo = Tail(flags)

InitPool ==
    /\ files \in 2..MaxFiles
    /\ ident \in Idents(files)
    /\ disk \in PoolDisks(files)
    /\ store \in PoolStores(files)
    /\ \A k \in 1..files : (\A f \in 1..files : ident[f] # k) => store[k] = Absent
    /\ numWorkers \in {0, 1, MaxWorkers}
    /\ dryRun \in BOOLEAN
    /\ todo = <<>>

Init ==
    /\ password = "pw"
    /\ prevPrinted = [f \in FileIds |-> <<>>]
    /\ RunInit
    /\ (InitOne \/ InitPool)
    /\ codec = NoCodec
    /\ table = {}
    /\ clock = 0
    /\ git = NoGit
    /\ daemon = NoDaemon

\* ------------------------------------------------- syncFileParallel, pure
\* Branch with the check for a missing row left out: the zero row is compared
BranchNoNilCheck(localHash, localModTime, dbRecord) ==
    IF localHash = dbRecord.file_hash THEN "identical"
    ELSE IF localModTime - dbRecord.file_modified_at.t > Tolerance THEN "local newer"
    ELSE IF localModTime - dbRecord.file_modified_at.t < -Tolerance THEN "remote newer"
    ELSE "content changed, timestamps similar"

\* Branch with the timestamps compared before the hashes
BranchTimeFirst(localHash, localModTime, dbRecord) ==
    IF ~dbRecord.present THEN "new"
    ELSE LET dbModTime == ParseDbTime(dbRecord.file_modified_at)
             timeDiff == localModTime - dbModTime.t
         IN  IF ~dbModTime.ok THEN "parse error"
             ELSE IF timeDiff > Tolerance THEN "local newer"
             ELSE IF timeDiff < -Tolerance THEN "remote newer"
             ELSE IF localHash = dbRecord.file_hash THEN "identical"
             ELSE "content changed, timestamps similar"

\* Branch with the tolerance compared by >= and <=
BranchInclusive(localHash, localModTime, dbRecord) ==
    IF ~dbRecord.present THEN "new"
    ELSE IF localHash = dbRecord.file_hash THEN "identical"
    ELSE LET dbModTime == ParseDbTime(dbRecord.file_modified_at)
             timeDiff == localModTime - dbModTime.t
         IN  IF ~dbModTime.ok THEN "parse error"
             ELSE IF timeDiff >= Tolerance THEN "local newer"
             ELSE IF timeDiff <= -Tolerance THEN "remote newer"
             ELSE "content changed, timestamps similar"

\* Branch with a dry run that decides without the stored row
BranchDryRun(localHash, localModTime, dbRecord) ==
    IF dryRun \/ ~dbRecord.present THEN "new"
    ELSE IF localHash = dbRecord.file_hash THEN "identical"
    ELSE LET dbModTime == ParseDbTime(dbRecord.file_modified_at)
             timeDiff == localModTime - dbModTime.t
         IN  IF ~dbModTime.ok THEN "parse error"
             ELSE IF timeDiff > Tolerance THEN "local newer"
             ELSE IF timeDiff < -Tolerance THEN "remote newer"
             ELSE "content changed, timestamps similar"

\* The branch syncFileParallel takes for a local hash and modification time
\* and the row the store returned.
Branch(localHash, localModTime, dbRecord) ==
    IF ~dbRecord.present THEN "new"
    ELSE IF localHash = dbRecord.file_hash THEN "identical"
    ELSE LET dbModTime == ParseDbTime(dbRecord.file_modified_at)
             timeDiff == localModTime - dbModTime.t
         IN  IF ~dbModTime.ok THEN "parse error"
             ELSE IF timeDiff > Tolerance THEN "local newer"
             ELSE IF timeDiff < -Tolerance THEN "remote newer"
             ELSE "content changed, timestamps similar"

UploadBranches == {"new", "local newer", "content changed, timestamps similar"}

\* the counter each branch adds one to
Counter(branch) ==
    IF branch = "identical" THEN "FilesSkipped"
    ELSE IF branch = "remote newer" THEN "FilesDownloaded"
    ELSE "FilesUploaded"

\* a plain stats.<counter>++ whose store can overwrite a concurrent one
AddLossy(s, counter) == [s EXCEPT ![counter] = IF @ > 0 THEN @ ELSE 1]

\* atomic.AddInt64(&stats.<counter>, 1)
AddInt64(s, counter) == [s EXCEPT ![counter] = @ + 1]

\* the apply step run whether or not --dry-run is set
DoApplyAlways(dry) == TRUE

\* if !dryRun { ... }
DoApply(dry) == ~dry

dryRunSuffix(dry) == IF dry THEN " [DRY RUN]" ELSE ""

\* an upsert whose DO UPDATE SET leaves file_hash out
UpsertKeepsHash(db, key, encryptedContents, fileHash, fileModTime) ==
    [db EXCEPT ![key] = IF @.present
                        THEN Row(encryptedContents, @.file_hash, fileModTime)
                        ELSE Row(encryptedContents, fileHash, fileModTime)]

\* INSERT ... ON CONFLICT (repo_id, relative_path) DO UPDATE SET ...
UpsertEnvFile(db, key, encryptedContents, fileHash, fileModTime) ==
    [db EXCEPT ![key] = Row(encryptedContents, fileHash, fileModTime)]

\* a worker that returns from its loop on the first error
LoopStopsOnError(err) == IF err # "nil" THEN "exited" ELSE "idle"

\* for file := range jobs { ...; results <- ... }: the loop goes on after a result
LoopNext(err) == "idle"

\* close(results) without waiting for the workers
WaitSkipped(n) == TRUE

\* wg.Wait() returns
WaitDone(n) == n = 0

\* the worker count taken as it was given
ClampNone(n, w) == w

\* if len(files) < numWorkers { numWorkers = len(files) }
Clamp(n, w) == IF n < w THEN n ELSE w

\* wg.Add(1) once although the loop starts no worker
StartedOrOne(w) == IF w > 0 THEN w ELSE 1

\* for i := 0; i < numWorkers; i++ { wg.Add(1); go ... }: the Adds done
Started(w) == IF w > 0 THEN w ELSE 0

\* --------------------------------------------------------------- workers
\* A worker's steps are cut where it touches what the goroutines share: the
\* channels, the store, the WaitGroup.  What it does to its own file and the
\* atomic add, which nothing reads before the workers are done, ride with them.
WorkerFrame == <<files, ident, password, dryRun, todo, numWorkers, jobsClosed,
                 resultsClosed, pc, sent, errCount, waiter, report, prevPrinted, codec, table, clock, git, daemon>>

\* Workers blocked in the receive from jobs hold no state and are
\* interchangeable: the one of lowest index stands for whichever is woken.
Woken(w) == wpc[w] = "idle" /\ \A v \in Workers : v < w => wpc[v] # "idle"

\* return "", err
Fail(w, e) ==
    /\ wloc' = [wloc EXCEPT ![w].err = e]
    /\ wpc' = [wpc EXCEPT ![w] = "send"]

\* return msg, nil after atomic.AddInt64 on the branch's counter
Succeed(w, b) ==
    /\ stats' = AddInt64(stats, Counter(b))
    /\ wloc' = [wloc EXCEPT ![w].branch = b,
                            ![w].message = b,
                            ![w].suffix = IF b = "identical" THEN "" ELSE dryRunSuffix(dryRun)]
    /\ wpc' = [wpc EXCEPT ![w] = "send"]

\* for file := range jobs: a job is received; GetFileIdentifier, os.Stat,
\* os.ReadFile and HashFile succeed
Take(w) ==
    /\ Woken(w)
    /\ jobs # <<>>
    /\ LET f == Head(jobs) IN
         wloc' = [wloc EXCEPT ![w] = [NoLoc EXCEPT !.file = f,
                                                    !.mtime = disk[f].mtime,
                                                    !.hash = HashFile(disk[f].content)]]
    /\ jobs' = Tail(jobs)
    /\ wpc' = [wpc EXCEPT ![w] = "get"]
    /\ UNCHANGED <<WorkerFrame, disk, store, stats, results, wg, printed>>

\* a job is received; GetFileIdentifier, os.Stat or os.ReadFile fails
TakeFails(w) ==
    /\ Woken(w)
    /\ jobs # <<>>
    /\ wloc' = [wloc EXCEPT ![w] = [NoLoc EXCEPT !.file = Head(jobs),
                                                  !.err = "failed to read local file"]]
    /\ jobs' = Tail(jobs)
    /\ wpc' = [wpc EXCEPT ![w] = "send"]
    /\ UNCHANGED <<WorkerFrame, disk, store, stats, results, wg, printed>>

\* a worker that returns without wg.Done()
ExitWithoutDone(w) ==
    /\ Woken(w)
    /\ jobs = <<>> /\ jobsClosed
    /\ wpc' = [wpc EXCEPT ![w] = "exited"]
    /\ UNCHANGED <<WorkerFrame, disk, store, stats, jobs, results, wg, wloc, printed>>

\* for file := range jobs: jobs is closed and drained; defer wg.Done()
Exit(w) ==
    /\ Woken(w)
    /\ jobs = <<>> /\ jobsClosed
    /\ wpc' = [wpc EXCEPT ![w] = "exited"]
    /\ wg' = wg - 1
    /\ UNCHANGED <<WorkerFrame, disk, store, stats, jobs, results, wloc, printed>>

\* db.GetEnvFileWithMetadata(repoID, relativePath)
GetRecord(w) ==
    /\ wpc[w] = "get"
    /\ wloc' = [wloc EXCEPT ![w].rec = store[ident[wloc[w].file]]]
    /\ wpc' = [wpc EXCEPT ![w] = "apply"]
    /\ UNCHANGED <<WorkerFrame, disk, store, stats, jobs, results, wg, printed>>

GetRecordFails(w) ==
    /\ wpc[w] = "get"
    /\ Fail(w, "failed to check database")
    /\ UNCHANGED <<WorkerFrame, disk, store, stats, jobs, results, wg, printed>>

BranchOf(w) == Branch(wloc[w].hash, wloc[w].mtime, wloc[w].rec)

\* both layouts fail to parse the stored timestamp
ParseFails(w) ==
    /\ wpc[w] = "apply"
    /\ BranchOf(w) = "parse error"
    /\ Fail(w, "failed to parse db timestamp")
    /\ UNCHANGED <<WorkerFrame, disk, store, stats, jobs, results, wg, printed>>

\* a skip that brings the row's file_modified_at up to the local file's
SkipRefreshes(w) ==
    /\ wpc[w] = "apply"
    /\ BranchOf(w) = "identical"
    /\ store' = IF dryRun THEN store
                ELSE UpsertEnvFile(store, ident[wloc[w].file], wloc[w].rec.contents,
                                   wloc[w].rec.file_hash, FormatNow(wloc[w].mtime))
    /\ Succeed(w, "identical")
    /\ UNCHANGED <<WorkerFrame, disk, jobs, results, wg, printed>>

\* the hashes are equal
Skip(w) ==
    /\ wpc[w] = "apply"
    /\ BranchOf(w) = "identical"
    /\ Succeed(w, "identical")
    /\ UNCHANGED <<WorkerFrame, disk, store, jobs, results, wg, printed>>

\* an upload or a download under --dry-run: nothing is applied
DryApply(w) ==
    /\ wpc[w] = "apply"
    /\ BranchOf(w) \in UploadBranches \cup {"remote newer"}
    /\ ~DoApply(dryRun)
    /\ Succeed(w, BranchOf(w))
    /\ UNCHANGED <<WorkerFrame, disk, store, jobs, results, wg, printed>>

\* uploadFile handing the file's text to the store as it is
UploadPlain(w) ==
    /\ wpc[w] = "apply"
    /\ BranchOf(w) \in UploadBranches
    /\ DoApply(dryRun)
    /\ store' = UpsertEnvFile(store, ident[wloc[w].file], Plain(disk[wloc[w].file].content),
                              wloc[w].hash, FormatTime(wloc[w].mtime))
    /\ Succeed(w, BranchOf(w))
    /\ UNCHANGED <<WorkerFrame, disk, jobs, results, wg, printed>>

\* uploadFile: os.ReadFile, Encrypt, Format, db.UpsertEnvFile
Upload(w) ==
    /\ wpc[w] = "apply"
    /\ BranchOf(w) \in UploadBranches
    /\ DoApply(dryRun)
    /\ \E salt \in Salts, nonce \in Nonces :
          store' = UpsertEnvFile(store, ident[wloc[w].file],
                                 Encrypt(disk[wloc[w].file].content, password, salt, nonce),
                                 wloc[w].hash, FormatTime(wloc[w].mtime))
    /\ Succeed(w, BranchOf(w))
    /\ UNCHANGED <<WorkerFrame, disk, jobs, results, wg, printed>>

\* uploadFile: os.ReadFile, Encrypt or db.UpsertEnvFile fails: nothing is stored
UploadFails(w) ==
    /\ wpc[w] = "apply"
    /\ BranchOf(w) \in UploadBranches
    /\ DoApply(dryRun)
    /\ wloc' = [wloc EXCEPT ![w].err = "failed to upload", ![w].branch = BranchOf(w)]
    /\ wpc' = [wpc EXCEPT ![w] = "send"]
    /\ UNCHANGED <<WorkerFrame, disk, store, stats, jobs, results, wg, printed>>

\* downloadFile without os.Chtimes: the file is written and keeps the write time
DownloadKeepsWriteTime(w) ==
    /\ wpc[w] = "apply"
    /\ BranchOf(w) = "remote newer"
    /\ DoApply(dryRun)
    /\ LET plain == Decrypt(wloc[w].rec.contents, password)
           dbModTime == ParseDbTime(wloc[w].rec.file_modified_at)
           f == wloc[w].file
       IN  /\ ~plain.err
           /\ dbModTime.ok
           /\ disk' = [disk EXCEPT ![f] = [content |-> plain.text, mtime |-> Now]]
    /\ Succeed(w, "remote newer")
    /\ UNCHANGED <<WorkerFrame, store, jobs, results, wg, printed>>

\* downloadFile writing whatever Decrypt returned, its error unchecked
DownloadUnchecked(w) ==
    /\ wpc[w] = "apply"
    /\ BranchOf(w) = "remote newer"
    /\ DoApply(dryRun)
    /\ LET plain == Decrypt(wloc[w].rec.contents, password)
           dbModTime == ParseDbTime(wloc[w].rec.file_modified_at)
           f == wloc[w].file
       IN  disk' = [disk EXCEPT ![f] = [content |-> plain.text, mtime |-> dbModTime.t]]
    /\ Succeed(w, "remote newer")
    /\ UNCHANGED <<WorkerFrame, store, jobs, results, wg, printed>>

\* downloadFile: Decrypt, time.Parse, os.WriteFile, os.Chtimes
Download(w) ==
    /\ wpc[w] = "apply"
    /\ BranchOf(w) = "remote newer"
    /\ DoApply(dryRun)
    /\ LET plain == Decrypt(wloc[w].rec.contents, password)
           dbModTime == ParseDbTime(wloc[w].rec.file_modified_at)
           f == wloc[w].file
       IN  /\ ~plain.err
           /\ dbModTime.ok
           /\ \/ /\ disk' = [disk EXCEPT ![f] = [content |-> plain.text, mtime |-> dbModTime.t]]
                 /\ UNCHANGED printed
              \/ \* os.Chtimes fails: the worker prints a note, the file keeps the write time
                 /\ disk' = [disk EXCEPT ![f] = [content |-> plain.text, mtime |-> Now]]
                 /\ printed' = [printed EXCEPT ![f] = Append(@,
                                [file |-> f, message |-> "note: couldn't set file time",
                                 suffix |-> "", err |-> "nil"])]
    /\ Succeed(w, "remote newer")
    /\ UNCHANGED <<WorkerFrame, store, jobs, results, wg>>

\* downloadFile: Decrypt, time.Parse or os.WriteFile fails.  Decrypt and
\* time.Parse come before the write; os.WriteFile fails before it opened the
\* file, or after it truncated it.
DownloadFails(w) ==
    /\ wpc[w] = "apply"
    /\ BranchOf(w) = "remote newer"
    /\ DoApply(dryRun)
    /\ LET plain == Decrypt(wloc[w].rec.contents, password)
           dbModTime == ParseDbTime(wloc[w].rec.file_modified_at)
           e == IF plain.err THEN "failed to decrypt"
                ELSE IF ~dbModTime.ok THEN "failed to parse timestamp"
                ELSE "failed to write file"
       IN  /\ wloc' = [wloc EXCEPT ![w].err = e, ![w].branch = "remote newer"]
           /\ wpc' = [wpc EXCEPT ![w] = "send"]
           /\ \/ UNCHANGED disk
              \/ /\ e = "failed to write file"
                 /\ disk' = [disk EXCEPT ![wloc[w].file] = [content |-> "", mtime |-> Now]]
    /\ UNCHANGED <<WorkerFrame, store, stats, jobs, results, wg, printed>>

\* results <- syncResult{file, msg, err}; a loop that ended would run wg.Done()
Send(w) ==
    /\ wpc[w] = "send"
    /\ Len(results) < files
    /\ results' = Append(results, [file |-> wloc[w].file, message |-> wloc[w].message,
                                   suffix |-> wloc[w].suffix, err |-> wloc[w].err])
    /\ wpc' = [wpc EXCEPT ![w] = LoopNext(wloc[w].err)]
    /\ wg' = IF LoopNext(wloc[w].err) = "exited" THEN wg - 1 ELSE wg
    /\ wloc' = [wloc EXCEPT ![w] = NoLoc]
    /\ UNCHANGED <<WorkerFrame, disk, store, stats, jobs, printed>>

\* ---------------------------------------------------------- syncEnvFiles
\* loadEnvFiles, NewDatabase or InitSchema fails: the error is returned
StartFails ==
    /\ pc = "start"
    /\ pc' = "failed"
    /\ UNCHANGED <<files, ident, disk, store, password, dryRun, todo, numWorkers, stats,
                   jobs, jobsClosed, results, resultsClosed, wg, sent, errCount,
                   waiter, wpc, wloc, printed, report, prevPrinted, codec, table, clock, git, daemon>>

\* the worker count is clamped, the channels are made, the workers are started
Start ==
    /\ pc = "start"
    /\ numWorkers' = Clamp(files, numWorkers)
    /\ wg' = Started(numWorkers')
    /\ wpc' = [w \in Workers |-> IF w <= numWorkers' THEN "idle" ELSE "none"]
    /\ pc' = "send"
    /\ UNCHANGED <<files, ident, disk, store, password, dryRun, todo, stats,
                   jobs, jobsClosed, results, resultsClosed, sent, errCount,
                   waiter, wloc, printed, report, prevPrinted, codec, table, clock, git, daemon>>

\* jobs <- file
SendJob ==
    /\ pc = "send"
    /\ sent < files
    /\ Len(jobs) < files
    /\ jobs' = Append(jobs, sent + 1)
    /\ sent' = sent + 1
    /\ UNCHANGED <<files, ident, disk, store, password, dryRun, todo, numWorkers, stats,
                   jobsClosed, results, resultsClosed, wg, pc, errCount,
                   waiter, wpc, wloc, printed, report, prevPrinted, codec, table, clock, git, daemon>>

\* close(jobs); go func() { wg.Wait(); close(results) }()
CloseJobs ==
    /\ pc = "send"
    /\ sent = files
    /\ jobsClosed' = TRUE
    /\ waiter' = "wait"
    /\ pc' = "collect"
    /\ UNCHANGED <<files, ident, disk, store, password, dryRun, todo, numWorkers, stats,
                   jobs, results, resultsClosed, wg, sent, errCount,
                   wpc, wloc, printed, report, prevPrinted, codec, table, clock, git, daemon>>

\* wg.Wait() returns; close(results)
WaitClose ==
    /\ waiter = "wait"
    /\ WaitDone(wg)
    /\ resultsClosed' = TRUE
    /\ waiter' = "done"
    /\ UNCHANGED <<files, ident, disk, store, password, dryRun, todo, numWorkers, stats,
                   jobs, jobsClosed, results, wg, pc, sent, errCount,
                   wpc, wloc, printed, report, prevPrinted, codec, table, clock, git, daemon>>

\* for result := range results: one result is printed
Collect ==
    /\ pc = "collect"
    /\ results # <<>>
    /\ printed' = [printed EXCEPT ![Head(results).file] = Append(@, Head(results))]
    /\ errCount' = IF Head(results).err # "nil" THEN errCount + 1 ELSE errCount
    /\ results' = Tail(results)
    /\ UNCHANGED <<files, ident, disk, store, password, dryRun, todo, numWorkers, stats,
                   jobs, jobsClosed, resultsClosed, wg, pc, sent,
                   waiter, wpc, wloc, report, prevPrinted, codec, table, clock, git, daemon>>

\* for result := range results: results is closed and drained
CollectEnd ==
    /\ pc = "collect"
    /\ results = <<>> /\ resultsClosed
    /\ pc' = "summary"
    /\ UNCHANGED <<files, ident, disk, store, password, dryRun, todo, numWorkers, stats,
                   jobs, jobsClosed, results, resultsClosed, wg, sent, errCount,
                   waiter, wpc, wloc, printed, report, prevPrinted, codec, table, clock, git, daemon>>

\* the summary: atomic.LoadInt64 of each counter, errCount; the performance
\* figures, "Workers used" among them; return nil
Summary ==
    /\ pc = "summary"
    /\ report' = [uploaded |-> stats.FilesUploaded, downloaded |-> stats.FilesDownloaded,
                  skipped |-> stats.FilesSkipped, conflicts |-> stats.FilesConflict,
                  errors |-> errCount, workers |-> numWorkers]
    /\ pc' = "done"
    /\ UNCHANGED <<files, ident, disk, store, password, dryRun, todo, numWorkers, stats,
                   jobs, jobsClosed, results, resultsClosed, wg, sent, errCount,
                   waiter, wpc, wloc, printed, prevPrinted, codec, table, clock, git, daemon>>

\* Database.UploadEnvFiles over files first..n of the list: a file whose read,
\* Encrypt, GetFileIdentifier, os.Stat or upsert fails (those of warned) gets a
\* warning and the loop goes on; the others are encrypted and upserted.
RECURSIVE UploadEnvFiles(_, _, _, _, _, _, _, _)
UploadEnvFiles(db, first, n, warned, idOf, onDisk, pass, rnd) ==
    IF first > n THEN db
    ELSE IF first \in warned THEN UploadEnvFiles(db, first + 1, n, warned, idOf, onDisk, pass, rnd)
    ELSE UploadEnvFiles(
            UpsertEnvFile(db, idOf[first],
                          Encrypt(onDisk[first].content, pass, rnd[1], rnd[2]),
                          HashFile(onDisk[first].content),
                          FormatTime(onDisk[first].mtime)),
            first + 1, n, warned, idOf, onDisk, pass, rnd)

\* env-sync upload: uploadEnvFiles pushes every file of the list, whatever the
\* store holds; the command has no --dry-run and no --workers
UploadCommand ==
    /\ pc = "start"
    /\ ~dryRun /\ todo = <<>>
    /\ \E warned \in SUBSET (1..files), salt \in Salts, nonce \in Nonces :
          store' = UploadEnvFiles(store, 1, files, warned, ident, disk, password, <<salt, nonce>>)
    /\ pc' = "uploaded"
    /\ UNCHANGED <<files, ident, disk, password, dryRun, todo, numWorkers, stats,
                   jobs, jobsClosed, results, resultsClosed, wg, sent, errCount,
                   waiter, wpc, wloc, printed, report, prevPrinted, codec, table, clock, git, daemon>>

\* what syncEnvFiles returned to main: an error before the dispatch, nil after
\* the summary; main exits with status 1 on an error
Returned == IF pc = "failed" THEN "error" ELSE IF pc = "done" THEN "nil" ELSE "running"

\* env-sync sync is invoked again, on the same list, disk and store
Rerun ==
    /\ pc = "done"
    /\ todo # <<>>
    /\ dryRun' = Head(todo)
    /\ todo' = Tail(todo)
    /\ prevPrinted' = printed
    /\ stats' = ZeroStats
    /\ jobs' = <<>> /\ jobsClosed' = FALSE
    /\ results' = <<>> /\ resultsClosed' = FALSE
    /\ wg' = 0
    /\ pc' = "start"
    /\ sent' = 0
    /\ errCount' = 0
    /\ waiter' = "none"
    /\ wpc' = [w \in Workers |-> "none"]
    /\ wloc' = [w \in Workers |-> NoLoc]
    /\ printed' = [f \in FileIds |-> <<>>]
    /\ report' = NoReport
    /\ UNCHANGED <<files, ident, disk, store, password, numWorkers, codec, table, clock, git, daemon>>

Worker(w) ==
    \/ Take(w) \/ TakeFails(w) \/ Exit(w)
    \/ GetRecord(w) \/ GetRecordFails(w)
    \/ ParseFails(w) \/ Skip(w) \/ DryApply(w)
    \/ Upload(w) \/ UploadFails(w)
    \/ Download(w) \/ DownloadFails(w)
    \/ Send(w)

Main ==
    \/ StartFails \/ Start \/ SendJob \/ CloseJobs
    \/ Collect \/ CollectEnd \/ Summary \/ Rerun
    \/ UploadCommand

Next == Main \/ WaitClose \/ \E w \in Workers : Worker(w)

Spec == Init /\ [][Next]_vars

\* the Go scheduler runs every goroutine that can take a step
FairSpec ==
    /\ Spec
    /\ WF_vars(Main)
    /\ WF_vars(WaitClose)
    /\ \A w \in Workers : WF_vars(Worker(w))

\* Another process saves file f while a worker is between its os.ReadFile in
\* syncFileParallel and its apply step (uploadFile reads the file again).
EditFile(f) ==
    /\ \E w \in Workers :
          /\ wpc[w] \in {"get", "apply"}
          /\ wloc[w].file = f
          /\ wloc[w].hash = HashFile(disk[f].content)
    /\ \E c \in Contents \ {disk[f].content} :
          disk' = [disk EXCEPT ![f] = [content |-> c, mtime |-> Now]]
    /\ UNCHANGED <<files, ident, store, password, dryRun, todo, numWorkers, stats,
                   jobs, jobsClosed, results, resultsClosed, wg, pc, sent, errCount,
                   waiter, wpc, wloc, printed, report, prevPrinted, codec, table, clock, git, daemon>>

RaceNext == Next \/ \E f \in FileIds : EditFile(f)

\* the sync command while the files are being edited
RaceSpec == Init /\ [][RaceNext]_vars

\* ------------------------------------------------------------ the codec
\* Encrypt and Decrypt on their own: a text is encrypted under a password with
\* the salt and nonce rand.Reader gives, the blob may be altered where it is
\* kept, and it is decrypted under the same password or another.
RunVars == <<files, ident, disk, store, password, dryRun, todo, numWorkers, stats,
             jobs, jobsClosed, results, resultsClosed, wg, pc, sent, errCount,
             waiter, wpc, wloc, printed, report, prevPrinted>>

\* no sync command is running
NoRun ==
    /\ files = 0
    /\ ident = <<>> /\ disk = <<>> /\ store = <<>>
    /\ password = ""
    /\ dryRun = FALSE /\ todo = <<>>
    /\ numWorkers = 0
    /\ prevPrinted = [f \in FileIds |-> <<>>]
    /\ RunInit

CodecTexts == Contents \cup {""}
CodecSalts == Salts \cup {"s0"}
CodecNonces == Nonces \cup {"n0"}

\* the regions of a blob: base64 of salt ++ nonce ++ ciphertext ++ tag
Regions == {"base64", "salt", "nonce", "ciphertext", "tag"}

\* a byte of one region of the blob is changed
Alter(blob, region) ==
    CASE region = "base64" -> [blob EXCEPT !.b64 = FALSE]
      [] region = "salt" -> [blob EXCEPT !.salt = "flipped"]
      [] region = "nonce" -> [blob EXCEPT !.nonce = "flipped"]
      [] region = "ciphertext" -> [blob EXCEPT !.sealed.ct.pt = "flipped"]
      [] region = "tag" -> [blob EXCEPT !.sealed.tag.nonce = "flipped"]

CodecInit ==
    /\ NoRun
    /\ table = {}
    /\ clock = 0
    /\ git = NoGit
    /\ daemon = NoDaemon
    /\ codec \in { [NoCodec EXCEPT !.op = "input", !.plaintext = t, !.password = w] :
                      t \in CodecTexts, w \in Passwords }

CodecEncrypt ==
    /\ codec.op = "input"
    /\ \E salt \in CodecSalts, nonce \in CodecNonces :
          codec' = [codec EXCEPT !.op = "sealed",
                                 !.blob = Encrypt(codec.plaintext, codec.password, salt, nonce)]
    /\ UNCHANGED <<RunVars, table, clock, git, daemon>>

CodecAlter ==
    /\ codec.op = "sealed"
    /\ codec.altered = ""
    /\ \E region \in Regions :
          codec' = [codec EXCEPT !.blob = Alter(@, region), !.altered = region]
    /\ UNCHANGED <<RunVars, table, clock, git, daemon>>

CodecDecrypt ==
    /\ codec.op = "sealed"
    /\ \E w \in Passwords :
          codec' = [codec EXCEPT !.op = "opened", !.opener = w,
                                 !.out = Decrypt(codec.blob, w)]
    /\ UNCHANGED <<RunVars, table, clock, git, daemon>>

CodecNext == CodecEncrypt \/ CodecAlter \/ CodecDecrypt

CodecSpec == CodecInit /\ [][CodecNext]_vars

\* ------------------------------------------------------- the env_files table
\* UpsertEnvFile and GetEnvFileWithMetadata on the table itself: a set of rows
\* with the columns of InitSchema.  The sync command above sees the table
\* through GetEnvFileWithMetadata only, as the function store.
StoreKeys == { <<"r1", ".env">>, <<"r1", "api/.env">>, <<"r2", ".env">> }

\* what two pushes hand to UpsertEnvFile: differing in every column
Versions == { [contents |-> Encrypt("a", "pw", "s1", "n1"), file_hash |-> HashFile("a"),
               file_modified_at |-> FormatTime(RemoteTick)],
              [contents |-> Encrypt("b", "pw", "s1", "n1"), file_hash |-> HashFile("b"),
               file_modified_at |-> FormatTime(Now)] }

\* the rows the UNIQUE(repo_id, relative_path) constraint sets against an insert
Conflicting(tbl, repoID, relativePath) ==
    { r \in tbl : r.repo_id = repoID /\ r.relative_path = relativePath }

\* INSERT OR REPLACE: the row in the way is deleted and a new one inserted
UpsertRowReplace(tbl, repoID, relativePath, encryptedContents, fileHash, fileModTime, now) ==
    (tbl \ Conflicting(tbl, repoID, relativePath))
       \cup { [id |-> Cardinality(tbl) + 1, repo_id |-> repoID, relative_path |-> relativePath,
               contents |-> encryptedContents, file_hash |-> fileHash,
               file_modified_at |-> fileModTime, created_at |-> now, updated_at |-> now] }

\* INSERT INTO env_files (...) VALUES (..., CURRENT_TIMESTAMP)
\* ON CONFLICT (repo_id, relative_path) DO UPDATE SET contents, file_hash,
\* file_modified_at = excluded's, updated_at = CURRENT_TIMESTAMP;
\* id is AUTOINCREMENT and created_at DEFAULT CURRENT_TIMESTAMP
UpsertRow(tbl, repoID, relativePath, encryptedContents, fileHash, fileModTime, now) ==
    LET hit == Conflicting(tbl, repoID, relativePath)
    IN  IF hit = {}
        THEN tbl \cup { [id |-> Cardinality(tbl) + 1, repo_id |-> repoID,
                         relative_path |-> relativePath,
                         contents |-> encryptedContents, file_hash |-> fileHash,
                         file_modified_at |-> fileModTime,
                         created_at |-> now, updated_at |-> now] }
        ELSE (tbl \ hit) \cup { [r EXCEPT !.contents = encryptedContents,
                                          !.file_hash = fileHash,
                                          !.file_modified_at = fileModTime,
                                          !.updated_at = now] : r \in hit }

\* SELECT ... WHERE repo_id = ? AND relative_path = ?; sql.ErrNoRows is nil, nil
GetEnvFileWithMetadata(tbl, repoID, relativePath) ==
    LET hit == Conflicting(tbl, repoID, relativePath)
    IN  IF hit = {} THEN Absent
        ELSE LET r == CHOOSE x \in hit : TRUE
             IN  Row(r.contents, r.file_hash, r.file_modified_at)

StoreInit ==
    /\ NoRun
    /\ codec = NoCodec
    /\ table = {}
    /\ clock = 0
    /\ git = NoGit
    /\ daemon = NoDaemon

\* db.UpsertEnvFile(repoID, relativePath, ...) at the clock's second
Upsert(key, v) ==
    /\ table' = UpsertRow(table, key[1], key[2], v.contents, v.file_hash,
                          v.file_modified_at, clock)
    /\ UNCHANGED <<RunVars, codec, clock, git, daemon>>

\* a second passes
Tick ==
    /\ clock < MaxClock
    /\ clock' = clock + 1
    /\ UNCHANGED <<RunVars, codec, table, git, daemon>>

StoreNext == Tick \/ \E key \in StoreKeys, v \in Versions : Upsert(key, v)

StoreSpec == StoreInit /\ [][StoreNext]_vars

\* ------------------------------------------------------------------ git.go
\* A URL is the sequence of its pieces: a scheme with its "://", names, the
\* punctuation "@", ":" and "/", and the suffix ".git".  A path is absolute
\* or relative and the sequence of its elements.

\* index of the first piece of s, at or after from, that is in stops; 0 if none
RECURSIVE First(_, _, _)
First(s, from, stops) ==
    IF from > Len(s) THEN 0
    ELSE IF s[from] \in stops THEN from
    ELSE First(s, from + 1, stops)

\* strings.TrimSuffix(url, suffix)
TrimSuffix(url, suffix) ==
    IF url # <<>> /\ url[Len(url)] = suffix THEN SubSeq(url, 1, Len(url) - 1) ELSE url

\* regexp.MustCompile(`^prefix([^sep]+)sep(.+)$`).FindStringSubmatch(url): the
\* two groups, or nothing.  The first group ends at the first sep.
FindStringSubmatch(prefix, sep, url) ==
    LET n == Len(prefix)
        i == First(url, n + 1, {sep})
    IN  IF Len(url) > n /\ SubSeq(url, 1, n) = prefix /\ i > n + 1 /\ i < Len(url)
        THEN <<SubSeq(url, n + 1, i - 1), SubSeq(url, i + 1, Len(url))>>
        ELSE <<>>

\* TrimSuffix(".git"); ^git@([^:]+):(.+)$, ^ssh://git@([^/]+)/(.+)$,
\* ^https?://([^/]+)/(.+)$ in this order; otherwise the URL as it is
normalizeGitURL(url) ==
    LET u == TrimSuffix(url, ".git")
        ssh == FindStringSubmatch(<<"git", "@">>, ":", u)
        sshURL == FindStringSubmatch(<<"ssh://", "git", "@">>, "/", u)
        https == FindStringSubmatch(<<"https://">>, "/", u)
        http == FindStringSubmatch(<<"http://">>, "/", u)
    IN  IF ssh # <<>> THEN ssh[1] \o <<"/">> \o ssh[2]
        ELSE IF sshURL # <<>> THEN sshURL[1] \o <<"/">> \o sshURL[2]
        ELSE IF https # <<>> THEN https[1] \o <<"/">> \o https[2]
        ELSE IF http # <<>> THEN http[1] \o <<"/">> \o http[2]
        ELSE u

Path(abs, parts) == [abs |-> abs, parts |-> parts]

\* filepath.Dir(path)
Dir(path) ==
    Path(path.abs, IF path.parts = <<>> THEN <<>> ELSE SubSeq(path.parts, 1, Len(path.parts) - 1))

\* the length of the longest common prefix of two sequences
RECURSIVE Common(_, _, _)
Common(a, b, n) ==
    IF n < Len(a) /\ n < Len(b) /\ a[n + 1] = b[n + 1] THEN Common(a, b, n + 1) ELSE n

\* filepath.Rel(basepath, targpath): lexical; an error when only one of the
\* two is absolute, otherwise ".." for every element of basepath past the
\* common prefix, then the rest of targpath
Rel(basepath, targpath) ==
    IF basepath.abs # targpath.abs THEN [err |-> TRUE, parts |-> <<>>]
    ELSE LET c == Common(basepath.parts, targpath.parts, 0)
         IN  [err |-> FALSE,
              parts |-> [i \in 1..(Len(basepath.parts) - c) |-> ".."]
                           \o SubSeq(targpath.parts, c + 1, Len(targpath.parts))]

\* findGitRoot(startPath): the nearest directory, from startPath upward, that
\* holds a .git; repos are the working copies of the file system
RECURSIVE findGitRoot(_, _)
findGitRoot(startPath, repos) ==
    IF \E r \in repos : r.root = startPath THEN [err |-> FALSE, root |-> startPath]
    ELSE IF startPath.parts = <<>> THEN [err |-> TRUE, root |-> startPath]
    ELSE findGitRoot(Dir(startPath), repos)

\* git remote get-url origin in gitRoot: an error when there is no origin
getGitRemoteURL(gitRoot, repos) ==
    LET r == CHOOSE x \in repos : x.root = gitRoot
    IN  [err |-> r.remote = <<>>, url |-> r.remote]

NotGitRepo == [IsGitRepo |-> FALSE, RemoteURL |-> <<>>, RelativePath |-> <<>>, err |-> FALSE]

GetGitInfo(filePath, repos) ==
    LET gitRoot == findGitRoot(Dir(filePath), repos)
    IN  IF gitRoot.err THEN NotGitRepo
        ELSE LET remoteURL == getGitRemoteURL(gitRoot.root, repos)
                 relPath == Rel(gitRoot.root, filePath)
             IN  IF remoteURL.err THEN NotGitRepo
                 ELSE [IsGitRepo |-> TRUE, RemoteURL |-> normalizeGitURL(remoteURL.url),
                       RelativePath |-> relPath.parts, err |-> relPath.err]

\* the git remote and the path in the working copy, or "__local__" and the
\* path relative to basePath
GetFileIdentifier(filePath, basePath, repos) ==
    LET gitInfo == GetGitInfo(filePath, repos)
        relPath == Rel(basePath, filePath)
    IN  IF gitInfo.err THEN [repoID |-> <<>>, relativePath |-> <<>>, err |-> TRUE]
        ELSE IF gitInfo.IsGitRepo /\ gitInfo.RemoteURL # <<>>
        THEN [repoID |-> gitInfo.RemoteURL, relativePath |-> gitInfo.RelativePath, err |-> FALSE]
        ELSE IF relPath.err THEN [repoID |-> <<>>, relativePath |-> <<>>, err |-> TRUE]
        ELSE [repoID |-> <<"__local__">>, relativePath |-> relPath.parts, err |-> FALSE]

Hosts == {"github.com", "gitlab.com"}
Owners == {"acme", "bob"}
Repos == {"api", "web"}
Users == {"git", "alice"}

\* the spellings of the remote host/owner/repo
Spellings(host, owner, repo) ==
    LET site == <<host, "/", owner, "/", repo>>
        bare == { <<scheme>> \o site : scheme \in {"https://", "http://"} }
                \cup { <<"https://", user, ":", "secret", "@">> \o site : user \in Users }
                \cup { <<user, "@", host, ":", owner, "/", repo>> : user \in Users }
                \cup { <<"ssh://", user, "@">> \o site : user \in Users }
    IN  bare \cup { url \o <<".git">> : url \in bare }

\* files of a working copy with an origin, of one without, and of no working
\* copy, under the base path and outside it, by absolute and relative paths
FilePaths == { Path(abs, parts) : abs \in BOOLEAN,
                  parts \in { <<"home", "app", ".env">>, <<"home", "app", "api", ".env">>,
                              <<"home", ".env">>, <<"tmp", ".env">> } }

BasePaths == { Path(TRUE, <<"home">>), Path(TRUE, <<"home", "app">>),
               Path(FALSE, <<>>), Path(FALSE, <<"home">>) }

WorkingCopies == { {},
                   { [root |-> Path(abs, <<"home", "app">>),
                      remote |-> <<"git", "@", "github.com", ":", "acme", "/", "api", ".git">>] :
                        abs \in BOOLEAN },
                   { [root |-> Path(abs, <<"home", "app">>), remote |-> <<>>] : abs \in BOOLEAN } }

GitInit ==
    /\ NoRun
    /\ codec = NoCodec
    /\ table = {}
    /\ clock = 0
    /\ daemon = NoDaemon
    /\ \/ \E host \in Hosts, owner \in Owners, repo \in Repos :
             \E url \in Spellings(host, owner, repo) :
                git = [NoGit EXCEPT !.op = "url", !.url = url,
                                    !.site = <<host, "/", owner, "/", repo>>]
       \/ \E filePath \in FilePaths, basePath \in BasePaths, repos \in WorkingCopies :
             git = [NoGit EXCEPT !.op = "file", !.filePath = filePath,
                                 !.basePath = basePath, !.repos = repos]

Normalize ==
    /\ git.op = "url"
    /\ git' = [git EXCEPT !.op = "normalized", !.out = normalizeGitURL(git.url)]
    /\ UNCHANGED <<RunVars, codec, table, clock, daemon>>

Identify ==
    /\ git.op = "file"
    /\ git' = [git EXCEPT !.op = "identified",
                          !.id = GetFileIdentifier(git.filePath, git.basePath, git.repos)]
    /\ UNCHANGED <<RunVars, codec, table, clock, daemon>>

GitNext == Normalize \/ Identify

GitSpec == GitInit /\ [][GitNext]_vars

\* --------------------------------------------------------------- runDaemon
\* env-sync daemon: an initial syncEnvFiles, then a select on the ticker's
\* channel and the signal channel for ever.  daemon.at is where runDaemon is:
\* in the initial sync, in a scheduled sync, at the select, or returned.
\* syncEnvFiles is called with dryRun false; its steps are those above.
\* runDaemon is entered: signal.Notify(sigChan, SIGINT, SIGTERM) on a channel
\* of capacity 1, then the initial sync
DaemonStart == [NoDaemon EXCEPT !.at = "initial"]

DaemonInit ==
    /\ password = "pw"
    /\ prevPrinted = [f \in FileIds |-> <<>>]
    /\ RunInit
    /\ (InitOne \/ InitPool)
    /\ ~dryRun /\ todo = <<>>
    /\ numWorkers >= 1
    /\ codec = NoCodec
    /\ table = {}
    /\ clock = 0
    /\ git = NoGit
    /\ daemon = DaemonStart

InSync == daemon.at \in {"initial", "scheduled"}

\* SIGINT or SIGTERM is delivered: the runtime puts it in sigChan, or drops it
\* when sigChan is full; nothing else in the process is touched
Signal ==
    /\ daemon.at \in {"initial", "scheduled", "select"}
    /\ daemon.sig = ""
    /\ daemon' = [daemon EXCEPT !.sig = IF InSync THEN "during sync" ELSE "between syncs"]
    /\ UNCHANGED <<RunVars, codec, table, clock, git>>

\* syncEnvFiles returned, its error if any is printed; after the initial sync
\* time.NewTicker(interval); runDaemon is at the select
Returns ==
    /\ InSync
    /\ pc \in {"done", "failed"}
    /\ daemon' = [daemon EXCEPT !.at = "select", !.ticking = TRUE]
    /\ UNCHANGED <<RunVars, codec, table, clock, git>>

\* the interval has passed: the ticker puts a tick in its channel of capacity
\* 1, or drops it when the channel is full.  A select with a signal ready
\* takes it at once: no interval passes while runDaemon is there.
TickFires ==
    /\ daemon.ticking
    /\ daemon.at # "stopped"
    /\ ~(daemon.at = "select" /\ daemon.sig # "")
    /\ ~daemon.tick
    /\ daemon' = [daemon EXCEPT !.tick = TRUE]
    /\ UNCHANGED <<RunVars, codec, table, clock, git>>

\* case <-ticker.C: syncEnvFiles is called again, on the same list, disk and
\* store.  select takes any case that is ready.
ScheduledSync ==
    /\ daemon.at = "select"
    /\ daemon.tick
    /\ daemon' = [daemon EXCEPT !.at = "scheduled", !.tick = FALSE]
    /\ stats' = ZeroStats
    /\ jobs' = <<>> /\ jobsClosed' = FALSE
    /\ results' = <<>> /\ resultsClosed' = FALSE
    /\ wg' = 0
    /\ pc' = "start"
    /\ sent' = 0
    /\ errCount' = 0
    /\ waiter' = "none"
    /\ wpc' = [w \in Workers |-> "none"]
    /\ wloc' = [w \in Workers |-> NoLoc]
    /\ printed' = [f \in FileIds |-> <<>>]
    /\ report' = NoReport
    /\ UNCHANGED <<files, ident, disk, store, password, dryRun, todo, numWorkers,
                   prevPrinted, codec, table, clock, git>>

\* case sig := <-sigChan: return
Shutdown ==
    /\ daemon.at = "select"
    /\ daemon.sig # ""
    /\ daemon' = [daemon EXCEPT !.at = "stopped", !.sig = ""]
    /\ UNCHANGED <<RunVars, codec, table, clock, git>>

\* the steps of a worker in a run that is not a dry run
DaemonWorker(w) ==
    \/ Take(w) \/ TakeFails(w) \/ Exit(w)
    \/ GetRecord(w) \/ GetRecordFails(w)
    \/ ParseFails(w) \/ Skip(w)
    \/ Upload(w) \/ UploadFails(w)
    \/ Download(w) \/ DownloadFails(w)
    \/ Send(w)

\* the steps of syncEnvFiles and its goroutines
SyncStep ==
    \/ StartFails \/ Start \/ SendJob \/ CloseJobs
    \/ Collect \/ CollectEnd \/ Summary
    \/ WaitClose
    \/ \E w \in Workers : DaemonWorker(w)

DaemonNext ==
    \/ SyncStep
    \/ Signal \/ Returns \/ TickFires \/ ScheduledSync \/ Shutdown

DaemonSpec ==
    /\ DaemonInit
    /\ [][DaemonNext]_vars

\* ----------------------------------------------------------------- claims
Note == "note: couldn't set file time"

IsResult(line) == line.message # Note

\* the syncResult lines the collector printed about file f
ResultLines(f) == SelectSeq(printed[f], IsResult)

PreviewLines(f) == SelectSeq(prevPrinted[f], IsResult)

Succeeded(f, branches) ==
    /\ Len(ResultLines(f)) = 1
    /\ ResultLines(f)[1].err = "nil"
    /\ ResultLines(f)[1].message \in branches

Errored(f) ==
    /\ Len(ResultLines(f)) = 1
    /\ ResultLines(f)[1].err # "nil"

HowMany(branches) == Cardinality({ f \in 1..files : Succeeded(f, branches) })

\* worker w leaves the decision of syncFileParallel in this step
Decides(w) == wpc[w] = "apply" /\ wpc'[w] = "send"

KeyOf(w) == ident[wloc[w].file]

\* the branch was taken and completed: its counter, and no other, goes up by one
Counted(w, b, counter) ==
    /\ wloc'[w].branch = b
    /\ wloc'[w].err = "nil"
    /\ wloc'[w].message = b
    /\ stats' = [stats EXCEPT ![counter] = @ + 1]

\* the branch was taken and its apply step failed: an error, and no counter
Failed(w, b) ==
    /\ wloc'[w].branch = b
    /\ wloc'[w].err # "nil"
    /\ wloc'[w].message = ""
    /\ stats' = stats

\* C1: when the store returned no row for the file's key, syncFileParallel takes
\* the upload branch "new", whatever the local modification time: FilesUploaded
\* goes up by one and the message says (new), or uploadFile failed and the file
\* is an error; no other branch is possible.
C1_NewFileIsUploaded ==
    [][\A w \in Workers :
          (Decides(w) /\ ~wloc[w].rec.present)
             => (Counted(w, "new", "FilesUploaded") \/ (~dryRun /\ Failed(w, "new")))]_vars

C1_Witness ==
    \E w \in Workers :
       /\ wpc[w] = "send"
       /\ ~wloc[w].rec.present
       /\ wloc[w].message = "new"
       /\ wloc[w].mtime < RemoteTick
       /\ stats.FilesUploaded >= 1

\* C2: when a row exists and the local hash equals its file_hash, the file is
\* skipped (FilesSkipped goes up by one, nothing is stored or written), for any
\* two modification times and also when the stored one does not parse.
C2_EqualHashIsSkipped ==
    [][\A w \in Workers :
          (Decides(w) /\ wloc[w].rec.present /\ wloc[w].hash = wloc[w].rec.file_hash)
             => /\ Counted(w, "identical", "FilesSkipped")
                /\ store' = store
                /\ disk' = disk]_vars

C2_Witness ==
    \E w \in Workers :
       /\ wpc[w] = "send"
       /\ wloc[w].message = "identical"
       /\ wloc[w].rec.file_modified_at.layout = "garbled"
       /\ stats.FilesSkipped >= 1

\* C3: with a row whose hash differs and whose timestamp parses, d = local
\* modification time - stored modification time decides: d > 1s uploads,
\* d < -1s downloads, and every d of [-1s, 1s] takes the branch "timestamps
\* similar", which pushes the local content.
TimeDiff(w) == wloc[w].mtime - ParseDbTime(wloc[w].rec.file_modified_at).t

ExpectedBranch(d) ==
    IF d > Tolerance THEN "local newer"
    ELSE IF d < -Tolerance THEN "remote newer"
    ELSE "content changed, timestamps similar"

C3_TimestampsDecide ==
    [][\A w \in Workers :
          (/\ Decides(w)
           /\ wloc[w].rec.present
           /\ wloc[w].hash # wloc[w].rec.file_hash
           /\ ParseDbTime(wloc[w].rec.file_modified_at).ok)
             => /\ wloc'[w].branch = ExpectedBranch(TimeDiff(w))
                /\ (wloc'[w].branch = "content changed, timestamps similar"
                    /\ wloc'[w].err = "nil" /\ ~dryRun)
                      => /\ store'[KeyOf(w)].file_hash = wloc[w].hash
                         /\ Decrypt(store'[KeyOf(w)].contents, password).text
                               = disk[wloc[w].file].content]_vars

C3_Witness ==
    \E w \in Workers :
       /\ wpc[w] = "send"
       /\ wloc[w].message = "content changed, timestamps similar"
       /\ wloc[w].mtime - wloc[w].rec.file_modified_at.t = Tolerance
       /\ ~dryRun
       /\ store[KeyOf(w)].file_hash = wloc[w].hash

\* C4: a run with at least one worker ends with uploaded + downloaded + skipped
\* + conflicts + errors = N.  Every file sent is in exactly one place (the jobs
\* channel, one worker, the results channel, the output), and at the end has
\* exactly one result, counted as one error or as one counter increment.
InSeq(q, f) == Cardinality({ i \in 1..Len(q) : q[i] = f })

InResults(f) == Cardinality({ i \in 1..Len(results) : results[i].file = f })

Holders(f) == Cardinality({ w \in Workers : wpc[w] \in {"get", "apply", "send"} /\ wloc[w].file = f })

Places(f) == InSeq(jobs, f) + Holders(f) + InResults(f) + Len(ResultLines(f))

AllBranches == UploadBranches \cup {"identical", "remote newer"}

C4_EveryFileCountsOnce ==
    /\ \A f \in 1..files : Places(f) = (IF f <= sent THEN 1 ELSE 0)
    /\ (pc = "done" /\ numWorkers >= 1) =>
          /\ report.uploaded + report.downloaded + report.skipped
                + report.conflicts + report.errors = files
          /\ \A f \in 1..files : Len(ResultLines(f)) = 1
          /\ report.errors = Cardinality({ f \in 1..files : Errored(f) })
          /\ report.uploaded + report.downloaded + report.skipped + report.conflicts
                = HowMany(AllBranches)

C4_Witness ==
    /\ pc = "done"
    /\ files >= 2 /\ numWorkers >= 2
    /\ report.errors >= 1
    /\ report.uploaded >= 1

\* C5: a real run decides for a file what the dry run before it decided, the
\* file and the store being as the dry run found them: the branch, and with it
\* the counter, does not depend on --dry-run.
WasPreviewed(f) ==
    /\ Len(PreviewLines(f)) = 1
    /\ PreviewLines(f)[1].err = "nil"
    /\ PreviewLines(f)[1].suffix = " [DRY RUN]" \/ PreviewLines(f)[1].message = "identical"

C5_DryRunDecidesAlike ==
    \A w \in Workers :
       (wpc[w] = "send" /\ wloc[w].branch # "" /\ ~dryRun /\ WasPreviewed(wloc[w].file))
          => /\ wloc[w].branch = PreviewLines(wloc[w].file)[1].message
             /\ wloc[w].err = "nil" => wloc[w].message = PreviewLines(wloc[w].file)[1].message

C5_Witness ==
    \E w \in Workers :
       /\ wpc[w] = "send" /\ ~dryRun
       /\ WasPreviewed(wloc[w].file)
       /\ wloc[w].message = "remote newer"
       /\ PreviewLines(wloc[w].file)[1].message = "remote newer"
       /\ PreviewLines(wloc[w].file)[1].suffix = " [DRY RUN]"

RunEnded == pc \in {"done", "failed", "uploaded"}

C7_FailureIsContained ==
    /\ \A w \in Workers : wpc[w] = "exited" => (jobsClosed /\ jobs = <<>>)
    /\ RunEnded \/ ENABLED Next
    /\ (pc = "done" /\ numWorkers >= 1) => \A f \in 1..files : Len(ResultLines(f)) = 1

C7_Witness ==
    /\ pc = "done" /\ files >= 2
    /\ \E f, g \in 1..files : Errored(f) /\ Succeeded(g, AllBranches)

\* The same under FairSpec, as progress: once a file has failed, the run still
\* gives every file its one result and reaches the end of the summary.
SomeFileFailed == \E w \in Workers : wpc[w] = "send" /\ wloc[w].err # "nil"

RunComplete == pc = "done" /\ \A f \in 1..files : Len(ResultLines(f)) = 1

FailureLeadsToSummary == SomeFileFailed ~> RunComplete

\* C8: at the end of a run each counter is the number of files that completed
\* its branch: uploaded the uploads, downloaded the downloads, skipped the
\* skips, conflicts the uploads of the "timestamps similar" branch.
C8_CountersMatchBranches ==
    (pc = "done" /\ numWorkers >= 1) =>
       /\ report.uploaded = HowMany({"new", "local newer"})
       /\ report.downloaded = HowMany({"remote newer"})
       /\ report.skipped = HowMany({"identical"})
       /\ report.conflicts = HowMany({"content changed, timestamps similar"})

\* C9: results is closed only when every worker has returned, the collector
\* leaves its loop only when results is closed and empty, and the counters do
\* not move once the summary has read them.
C9_SummaryAfterWorkers ==
    /\ resultsClosed => \A w \in Workers : wpc[w] \in {"none", "exited"}
    /\ pc \in {"summary", "done"} => (resultsClosed /\ results = <<>>)
    /\ pc = "done" =>
          /\ report.uploaded = stats.FilesUploaded
          /\ report.downloaded = stats.FilesDownloaded
          /\ report.skipped = stats.FilesSkipped
          /\ report.conflicts = stats.FilesConflict
          /\ report.errors = errCount

C9_Witness ==
    /\ pc = "done" /\ numWorkers >= 2
    /\ \A w \in Workers : wpc[w] = "exited"
    /\ report.uploaded + report.downloaded + report.skipped >= 2

\* C10: the summary's conflict count is the number of files that took the
\* "timestamps similar" branch.
C10_ConflictsAreCounted ==
    pc = "done" => report.conflicts = HowMany({"content changed, timestamps similar"})

\* C11 (as stated): after a download that succeeded, the local file holds the
\* plaintext of the blob of the row the worker fetched, and its modification
\* time is the row's file_modified_at.
Downloaded(w) ==
    /\ wpc[w] = "send"
    /\ wloc[w].branch = "remote newer"
    /\ wloc[w].err = "nil"
    /\ ~dryRun

Noted(f) == \E i \in 1..Len(printed[f]) : printed[f][i].message = Note

C11_DownloadMirrorsRecord ==
    \A w \in Workers :
       Downloaded(w) =>
          /\ disk[wloc[w].file].content = Decrypt(wloc[w].rec.contents, password).text
          /\ disk[wloc[w].file].mtime = ParseDbTime(wloc[w].rec.file_modified_at).t

\* C11 (amended): after a download that succeeded, the local file holds the
\* plaintext of the fetched row's blob; its modification time is the row's
\* file_modified_at unless os.Chtimes failed, and then the note is printed and
\* the file keeps the time of the write.
C11_DownloadMirrorsUnlessNoted ==
    \A w \in Workers :
       Downloaded(w) =>
          /\ ~Decrypt(wloc[w].rec.contents, password).err
          /\ disk[wloc[w].file].content = Decrypt(wloc[w].rec.contents, password).text
          /\ disk[wloc[w].file].mtime =
                IF Noted(wloc[w].file) THEN Now
                ELSE ParseDbTime(wloc[w].rec.file_modified_at).t

C11_Witness ==
    \E w \in Workers :
       /\ Downloaded(w)
       /\ ~Noted(wloc[w].file)
       /\ wloc[w].rec.file_modified_at.layout = "rfc3339"
       /\ wloc[w].mtime < wloc[w].rec.file_modified_at.t - Tolerance
       /\ disk[wloc[w].file] = [content |-> "a", mtime |-> RemoteTick]

\* C12: a download that cannot be decoded (wrong password, corrupted blob), or
\* a row whose timestamp does not parse, leaves the local file as it was read,
\* adds nothing to FilesDownloaded and ends as the file's error.
Undecodable(w) ==
    /\ wloc[w].rec.present
    /\ wloc[w].hash # wloc[w].rec.file_hash
    /\ \/ ~ParseDbTime(wloc[w].rec.file_modified_at).ok
       \/ /\ TimeDiff(w) < -Tolerance
          /\ Decrypt(wloc[w].rec.contents, password).err

InResultsAs(b) ==
    Cardinality({ i \in 1..Len(results) : results[i].err = "nil" /\ results[i].message = b })

HeldAs(b) ==
    Cardinality({ w \in Workers : wpc[w] = "send" /\ wloc[w].err = "nil" /\ wloc[w].message = b })

PrintedAs(b) ==
    Cardinality({ f \in 1..files : \E i \in 1..Len(printed[f]) :
                     printed[f][i].err = "nil" /\ printed[f][i].message = b })

C12_UndecodableIsNotApplied ==
    /\ \A w \in Workers :
          (wpc[w] = "send" /\ ~dryRun /\ Undecodable(w)) =>
             /\ wloc[w].err # "nil"
             /\ wloc[w].message = ""
             /\ disk[wloc[w].file].mtime = wloc[w].mtime
             /\ HashFile(disk[wloc[w].file].content) = wloc[w].hash
    /\ stats.FilesDownloaded = HeldAs("remote newer") + InResultsAs("remote newer")
                                  + PrintedAs("remote newer")

C12_Witness ==
    \E w \in Workers :
       /\ wpc[w] = "send" /\ ~dryRun /\ Undecodable(w)
       /\ wloc[w].rec.contents = Corrupted(Encrypt("a", password, "s0", "n0"))
       /\ wloc[w].err = "failed to decrypt"
       /\ stats.FilesDownloaded = 0

\* C13: every row of the store that decodes has, as file_hash, the hash of the
\* plaintext its blob decodes to, also when the file is saved by another
\* process between the worker's read and uploadFile's.
C13_HashIsOfStoredPlaintext ==
    \A k \in 1..files : \A p \in Passwords :
       (store[k].present /\ ~Decrypt(store[k].contents, p).err)
          => store[k].file_hash = HashFile(Decrypt(store[k].contents, p).text)

\* C14: no row of the store holds a file's text as it is, and the blob of
\* every row that sync or upload wrote is Encrypt of the content of a file of
\* that key under the invocation's password.
PlainTexts == { Plain(c) : c \in Contents \cup {""} }

C14_StoreHoldsOnlyBlobs ==
    \A k \in 1..files :
       store[k].present =>
          LET blob == store[k].contents
          IN  /\ blob.b64
              /\ blob \notin PlainTexts
              /\ blob.salt \in Salts =>
                    /\ blob.nonce \in Nonces
                    /\ blob.sealed.ct.pt \in CodecTexts
                    /\ blob = Encrypt(blob.sealed.ct.pt, password, blob.salt, blob.nonce)

C14_Witness ==
    /\ pc = "uploaded"
    /\ files >= 2
    /\ \E k, j \in 1..files :
          /\ store[k].contents = Encrypt(disk[k].content, password, "s1", "n1")
          /\ ~store[j].present

\* C15: a blob of Encrypt, unaltered and decrypted under the password it was
\* encrypted with, gives back the text without an error, for every text (the
\* empty one too), password, salt and nonce.
C15_RoundTrip ==
    (codec.op = "opened" /\ codec.altered = "" /\ codec.opener = codec.password)
       => codec.out = [err |-> FALSE, text |-> codec.plaintext]

C15_Witness ==
    /\ codec.op = "opened" /\ codec.altered = ""
    /\ codec.opener = "old" /\ codec.password = "old"
    /\ codec.blob.salt = "s0" /\ codec.blob.nonce = "n1"
    /\ codec.plaintext = "b"
    /\ codec.out.text = "b"

\* C16: a blob of which a byte was altered, in the ciphertext, the tag or any
\* other region, or that is decrypted under another password than it was
\* encrypted with, gives an error and the empty string.
C16_NoPlaintextUnauthenticated ==
    (codec.op = "opened" /\ (codec.altered # "" \/ codec.opener # codec.password))
       => (codec.out.err /\ codec.out.text = "")

C16_Witness ==
    /\ codec.op = "opened"
    /\ codec.altered = "ciphertext"
    /\ codec.opener = codec.password
    /\ codec.plaintext = "a"
    /\ codec.out.err

\* C17: the table never holds two rows of one (repo_id, relative_path).  An
\* upsert of a key without a row adds one row, created and updated now; an
\* upsert of a key with a row gives that row the new contents, file_hash and
\* file_modified_at and updated_at = now, and leaves its id and created_at;
\* either leaves the rows of every other key as they were.  A query by key
\* then returns what was upserted, and for other keys what it returned before.
RowsOf(tbl, key) == Conflicting(tbl, key[1], key[2])

OneRowPerKey == \A key \in StoreKeys : Cardinality(RowsOf(table, key)) <= 1

Holds(r, v) ==
    /\ r.contents = v.contents
    /\ r.file_hash = v.file_hash
    /\ r.file_modified_at = v.file_modified_at

UpsertDone(key, v) ==
    /\ Cardinality(RowsOf(table', key)) = 1
    /\ \A r \in RowsOf(table', key) :
          /\ Holds(r, v)
          /\ r.updated_at = clock
          /\ IF RowsOf(table, key) = {}
             THEN r.created_at = clock /\ Cardinality(table') = Cardinality(table) + 1
             ELSE /\ \A old \in RowsOf(table, key) :
                        r.created_at = old.created_at /\ r.id = old.id
                  /\ Cardinality(table') = Cardinality(table)
    /\ \A other \in StoreKeys \ {key} : RowsOf(table', other) = RowsOf(table, other)
    /\ GetEnvFileWithMetadata(table', key[1], key[2])
          = Row(v.contents, v.file_hash, v.file_modified_at)
    /\ \A other \in StoreKeys \ {key} :
          GetEnvFileWithMetadata(table', other[1], other[2])
             = GetEnvFileWithMetadata(table, other[1], other[2])

C17_UpsertKeepsOneRowPerKey ==
    /\ []OneRowPerKey
    /\ [][\A key \in StoreKeys, v \in Versions : Upsert(key, v) => UpsertDone(key, v)]_vars

C17_Witness ==
    /\ Cardinality(table) = 3
    /\ \E r \in table :
          /\ r.created_at = 0
          /\ r.updated_at = MaxClock
          /\ r.file_hash = HashFile("b")
    /\ \E r \in table : r.created_at = 1 /\ r.updated_at = 1

\* C18: when the files of two workers resolve to one key and both upload, each
\* upsert replaces the row as a whole: after a worker's upload the row is its
\* blob, its hash and its modification time and no other row has changed, and
\* whenever a row changes the new row is, in all three columns, the upload of
\* one file of that key.
Uploaded(w) ==
    /\ Decides(w)
    /\ ~dryRun
    /\ wloc'[w].err = "nil"
    /\ wloc'[w].branch \in UploadBranches

WholeSeconds(t) == t - (t % TicksPerSec)

UploadOf(f) ==
    { Row(Encrypt(disk[f].content, password, salt, nonce), HashFile(disk[f].content),
          [layout |-> "sql", t |-> WholeSeconds(disk[f].mtime)]) :
         salt \in Salts, nonce \in Nonces }

C18_LastUpsertWinsWhole ==
    [][/\ \A w \in Workers :
             Uploaded(w) =>
                /\ store'[KeyOf(w)] \in UploadOf(wloc[w].file)
                /\ \A k \in 1..files : k # KeyOf(w) => store'[k] = store[k]
       /\ \A k \in 1..files :
             store'[k] # store[k] =>
                \E f \in 1..files : ident[f] = k /\ store'[k] \in UploadOf(f)]_vars

C18_Witness ==
    /\ pc = "done" /\ ~dryRun
    /\ files >= 2 /\ ident[2] = ident[1]
    /\ Succeeded(1, {"new"}) /\ Succeeded(2, {"new"})
    /\ disk[1].content # disk[2].content
    /\ store[ident[1]] \in UploadOf(1)

\* C19: after an upload that succeeded (new, local newer or timestamps
\* similar) the row's file_modified_at is the modification time os.Stat gave
\* for the file, cut to whole seconds in the SQL layout, and not the time of
\* the write (for a file last written before the run).
C19_StoredTimeIsFileTime ==
    [][\A w \in Workers :
          Uploaded(w) =>
             /\ wloc[w].mtime = disk[wloc[w].file].mtime
             /\ store'[KeyOf(w)].file_modified_at
                   = [layout |-> "sql", t |-> WholeSeconds(wloc[w].mtime)]
             /\ wloc[w].mtime < Now => store'[KeyOf(w)].file_modified_at.t < Now]_vars

C19_Witness ==
    \E w \in Workers :
       /\ wpc[w] = "send" /\ ~dryRun
       /\ wloc[w].err = "nil"
       /\ wloc[w].message = "content changed, timestamps similar"
       /\ wloc[w].mtime % TicksPerSec # 0
       /\ store[KeyOf(w)].file_modified_at.t = WholeSeconds(wloc[w].mtime)
       /\ store[KeyOf(w)].file_modified_at.t # wloc[w].rec.file_modified_at.t

\* C20: a run that got past the dispatch and in which no file succeeded
\* returns an error; syncEnvFiles returns nil only if some file succeeded.
C20_NoSuccessIsAnError ==
    (Returned = "nil" /\ numWorkers >= 1) => HowMany(AllBranches) >= 1

\* C21: every line of the output about a file is written by the collector, from
\* the result the file's worker sent: while a worker still holds a file nothing
\* has been printed about it, and the output never holds more about a file
\* than its one result.
C21_OnlyCollectorPrints ==
    \A f \in 1..files :
       /\ Holders(f) > 0 => printed[f] = <<>>
       /\ Len(printed[f]) <= 1
       /\ \A i \in 1..Len(printed[f]) : IsResult(printed[f][i])

\* C22: with a row whose hash differs and whose timestamp is not in the SQL
\* layout, the RFC3339 layout is tried.  If it parses, the file takes the
\* branch a SQL-layout timestamp of the same instant gives, no parse error is
\* returned, and a download sets the file to that instant; if it does not, the
\* file ends as "failed to parse db timestamp" with no counter added, no row
\* stored and no local file written.
AsSqlLayout(rec) == [rec EXCEPT !.file_modified_at.layout = "sql"]

ParseErrors == {"failed to parse db timestamp", "failed to parse timestamp"}

C22_FallbackThenError ==
    [][\A w \in Workers :
          (/\ Decides(w)
           /\ wloc[w].rec.present
           /\ wloc[w].hash # wloc[w].rec.file_hash
           /\ wloc[w].rec.file_modified_at.layout # "sql")
             => IF wloc[w].rec.file_modified_at.layout = "rfc3339"
                THEN /\ wloc'[w].branch = Branch(wloc[w].hash, wloc[w].mtime, AsSqlLayout(wloc[w].rec))
                     /\ wloc'[w].branch = ExpectedBranch(wloc[w].mtime - wloc[w].rec.file_modified_at.t)
                     /\ wloc'[w].err \notin ParseErrors
                     /\ (wloc'[w].branch = "remote newer" /\ wloc'[w].err = "nil"
                         /\ ~dryRun /\ printed' = printed)
                           => disk'[wloc[w].file].mtime = wloc[w].rec.file_modified_at.t
                ELSE /\ wloc'[w].err = "failed to parse db timestamp"
                     /\ wloc'[w].message = ""
                     /\ stats' = stats
                     /\ store' = store
                     /\ disk' = disk]_vars

C22_Witness ==
    \E w \in Workers :
       /\ wpc[w] = "send" /\ ~dryRun
       /\ wloc[w].rec.file_modified_at.layout = "rfc3339"
       /\ wloc[w].hash # wloc[w].rec.file_hash
       /\ wloc[w].message = "local newer"
       /\ wloc[w].err = "nil"
       /\ store[KeyOf(w)].file_hash = wloc[w].hash

\* C23: normalizeGitURL gives host/owner/repo for every spelling of the remote:
\* https with and without credentials, user@host:owner/repo and
\* ssh://user@host/owner/repo for any user, each with and without ".git".
C23_EverySpellingOneKey ==
    git.op = "normalized" => git.out = git.site

\* C24: for a file that is in no working copy with an origin remote and is not
\* under the base path, GetFileIdentifier returns an error and no key under
\* "__local__".
InWorkingCopy(filePath, repos) ==
    \E r \in repos :
       /\ r.remote # <<>>
       /\ r.root.abs = filePath.abs
       /\ Len(r.root.parts) < Len(filePath.parts)
       /\ SubSeq(filePath.parts, 1, Len(r.root.parts)) = r.root.parts

Under(basePath, filePath) ==
    /\ basePath.abs = filePath.abs
    /\ Len(basePath.parts) < Len(filePath.parts)
    /\ SubSeq(filePath.parts, 1, Len(basePath.parts)) = basePath.parts

C24_OutsideBaseIsAnError ==
    (/\ git.op = "identified"
     /\ ~InWorkingCopy(git.filePath, git.repos)
     /\ ~Under(git.basePath, git.filePath))
       => (git.id.err /\ git.id.repoID # <<"__local__">>)

\* C25: the step in which a file is skipped adds one to FilesSkipped and
\* changes nothing else outside the worker: no row of the store, no local
\* file's content or modification time, no channel and no output; and the
\* steps around it (taking the job, fetching the row, sending the result)
\* change neither the store nor a local file.  The same with and without
\* --dry-run.
Skipped(w) == Decides(w) /\ wloc'[w].message = "identical"

AroundApply(w) == wpc'[w] # wpc[w] /\ wpc[w] \in {"idle", "get", "send"}

C25_SkipChangesNothing ==
    [][\A w \in Workers :
          /\ Skipped(w) =>
                /\ store' = store
                /\ disk' = disk
                /\ stats' = [stats EXCEPT !.FilesSkipped = @ + 1]
                /\ UNCHANGED <<jobs, results, printed, errCount, report>>
          /\ AroundApply(w) => (store' = store /\ disk' = disk)]_vars

C25_Witness ==
    \E w \in Workers :
       /\ wpc[w] = "send" /\ ~dryRun
       /\ wloc[w].message = "identical"
       /\ wloc[w].rec.file_modified_at.layout = "sql"
       /\ wloc[w].mtime > wloc[w].rec.file_modified_at.t + Tolerance
       /\ store[KeyOf(w)] = wloc[w].rec
       /\ disk[wloc[w].file].mtime = wloc[w].mtime
       /\ stats.FilesSkipped = 1

\* C26: for a worker count of at least 1, syncEnvFiles starts min(worker count,
\* N) workers: never more workers than files, and the "Workers used" figure of
\* the summary is the number of workers that were started.
StartedWorkers == Cardinality({ w \in Workers : wpc[w] # "none" })

Min(a, b) == IF a < b THEN a ELSE b

WorkersWithinFiles ==
    /\ StartedWorkers <= files
    /\ (pc = "done" /\ numWorkers >= 1) => report.workers = StartedWorkers

C26_WorkersAreClamped ==
    /\ []WorkersWithinFiles
    /\ [][(Start /\ numWorkers >= 1) => StartedWorkers' = Min(numWorkers, files)]_vars

C26_Witness ==
    /\ pc = "done"
    /\ files >= 2
    /\ report.workers = 1
    /\ wpc[1] = "exited"
    /\ \A w \in Workers : w > 1 => wpc[w] = "none"
    /\ \A f \in 1..files : Len(ResultLines(f)) = 1

\* C27: in daemon mode a signal that arrives during a sync leaves the run
\* alone: runDaemon returns only from the select, after a run that has ended,
\* a run that is under way can always take a step, and at its end every file
\* has its one result.  Once the run is over the daemon takes the signal and
\* starts no other run; and a run starts only when the run before it has
\* returned.
RunsToItsEnd ==
    /\ daemon.at = "stopped" => pc \in {"done", "failed"}
    /\ (InSync /\ pc \notin {"done", "failed"}) => ENABLED SyncStep
    /\ (InSync /\ pc = "done") => \A f \in 1..files : Len(ResultLines(f)) = 1

RunBegins == pc' = "start" /\ pc # "start"

NoRunOnceSignalled == (daemon.sig = "during sync") => ~RunBegins

NoOverlap == RunBegins => (pc \in {"done", "failed"} /\ daemon.at = "select")

C27_SignalEndsDaemonAfterRun ==
    /\ []RunsToItsEnd
    /\ [][NoRunOnceSignalled /\ NoOverlap]_vars

\* ------------------------------------------------------------ termination
\* The runs whose progress is followed: one file against every kind of row, and
\* lists of several files, with every worker count from 0, the first file's
\* row already in the store.
TermInit ==
    /\ password = "pw"
    /\ prevPrinted = [f \in FileIds |-> <<>>]
    /\ RunInit
    /\ \/ InitOne
       \/ /\ files \in 2..MaxFiles
          /\ ident = [f \in 1..files |-> f]
          /\ disk = [f \in 1..files |-> PoolFiles[((f + 1) % 4) + 1]]
          /\ store = [k \in 1..files |-> IF k = 1 THEN PoolRow ELSE Absent]
          /\ numWorkers \in 0..MaxWorkers
          /\ dryRun = FALSE
          /\ todo = <<>>
    /\ codec = NoCodec
    /\ table = {}
    /\ clock = 0
    /\ git = NoGit
    /\ daemon = NoDaemon

\* the Go scheduler runs every goroutine that can take a step, and every call
\* of syncFileParallel returns
TermSpec ==
    /\ TermInit
    /\ [][Next]_vars
    /\ WF_vars(Main)
    /\ WF_vars(WaitClose)
    /\ \A w \in Workers : WF_vars(Worker(w))

\* C28: syncEnvFiles neither deadlocks nor runs for ever.  jobs and results
\* have room for N: the dispatcher's send and a worker's send of a result are
\* never blocked; results is closed once, by the waiter, when it is still
\* open; the collector has received exactly N results when it leaves its loop
\* (for a worker count of at least 1); and every run that is started ends.
Collected == Cardinality({ f \in 1..files : Len(ResultLines(f)) = 1 })

NeverBlocks ==
    /\ Len(jobs) <= files /\ Len(results) <= files
    /\ (pc = "send" /\ sent < files) => (Len(jobs) < files /\ ENABLED SendJob)
    /\ \A w \in Workers : wpc[w] = "send" => (Len(results) < files /\ ENABLED Send(w))
    /\ (waiter = "wait" /\ wg = 0) => ~resultsClosed
    /\ resultsClosed <=> waiter = "done"
    /\ (pc \in {"summary", "done"} /\ numWorkers >= 1) =>
          /\ Collected = files
          /\ \A f \in 1..files : Len(ResultLines(f)) = 1
    /\ RunEnded \/ ENABLED Next

C28_TerminatesWithoutBlocking ==
    /\ []NeverBlocks
    /\ [](pc = "start" => <>RunEnded)

C28_Witness ==
    /\ pc = "done"
    /\ files >= 2
    /\ numWorkers = 1
    /\ Collected = files
    /\ wpc[1] = "exited"
    /\ waiter = "done"

\* C29: when the run before this one was a real run that uploaded or
\* downloaded the file, and the file is as the worker read it, the worker
\* decides "identical": the file is skipped and neither the store nor a local
\* file is written, whatever the two modification times.
PrevApplied(f) ==
    /\ Len(PreviewLines(f)) = 1
    /\ PreviewLines(f)[1].err = "nil"
    /\ PreviewLines(f)[1].message \in UploadBranches \cup {"remote newer"}
    /\ PreviewLines(f)[1].suffix = ""

AsRead(w) ==
    /\ wloc[w].hash = HashFile(disk[wloc[w].file].content)
    /\ wloc[w].mtime = disk[wloc[w].file].mtime

C29_SecondRunSkips ==
    [][\A w \in Workers :
          (Decides(w) /\ PrevApplied(wloc[w].file) /\ AsRead(w))
             => /\ wloc'[w].message = "identical"
                /\ wloc'[w].err = "nil"
                /\ store' = store
                /\ disk' = disk]_vars

\* C30: with a worker count of 0 or less no worker is started and no file is
\* processed: the jobs stay in the channel, no counter moves, nothing is
\* printed, stored or written.  The run still ends: it gets through the
\* summary, which shows 0 for the four counters and for the errors, and
\* syncEnvFiles returns nil.
NothingProcessed ==
    /\ \A w \in Workers : wpc[w] = "none" /\ wloc[w] = NoLoc
    /\ Len(jobs) = sent
    /\ results = <<>>
    /\ stats = ZeroStats
    /\ errCount = 0
    /\ \A f \in FileIds : printed[f] = <<>>

ZeroSummary ==
    /\ report.uploaded = 0 /\ report.downloaded = 0
    /\ report.skipped = 0 /\ report.conflicts = 0
    /\ report.errors = 0
    /\ Returned = "nil"

NoWorkerNoWork ==
    (numWorkers <= 0 /\ pc \in {"send", "collect", "summary", "done"}) =>
       /\ NothingProcessed
       /\ pc = "done" => ZeroSummary

C30_NoWorkersStillSucceeds ==
    /\ []NoWorkerNoWork
    /\ [][(numWorkers <= 0 /\ pc # "start" /\ pc' # "start") => (store' = store /\ disk' = disk)]_vars
    /\ []((numWorkers <= 0 /\ pc = "send") => <>(pc = "done"))

C30_Witness ==
    /\ pc = "done"
    /\ numWorkers = 0
    /\ files >= 2
    /\ Len(jobs) = files
    /\ ZeroSummary
    /\ store[1].present /\ ~store[2].present

====
